---------------------------- MODULE Spec2Model ----------------------------
(***************************************************************************)
(* Model of MusicOrganizer (src/music-organiser.py): the name sanitizer,   *)
(* the metadata resolver, the per-file relocation, the sidecar cleaner,    *)
(* the tree walk of organize and the bottom-up pruning of empty            *)
(* directories, over a small file system.                                  *)
(*                                                                         *)
(* A Python string is a sequence of one-character strings.  A path is a    *)
(* sequence of components; a component is a sequence of strings: a         *)
(* directory name made by the program is the character sequence of the     *)
(* sanitized tag, a file name is <<stem, extension>>.                      *)
(***************************************************************************)
EXTENDS Integers, Sequences, FiniteSets, TLC

VARIABLES
  name,             \* sanitize_filename: the argument
  sanitized,        \* sanitize_filename: the returned string
  audio,            \* extract_metadata: what mutagen.File gives for the file
  resolved,         \* extract_metadata: the returned (artist, album)
  destination_dir,  \* self.destination_dir
  dirs,             \* file system: the directories that exist
  files,            \* file system: path -> file, for the files that exist
  stats,            \* self.stats
  pc,               \* position in organize / organize_file / cleanup
  run,              \* number of the run of the tool, 1-based
  stack,            \* os.walk(source_dir): directories still to visit
  root,             \* os.walk(source_dir): the directory being listed
  todo,             \* os.walk(source_dir): files of root not yet dispatched
  cur,              \* organize_file: file_path
  dst,              \* organize_file: destination_file
  log,              \* the per-file status lines printed in this run
  cstack,           \* os.walk(topdown=False): entries still to list or yield
  failures,         \* number of file-system failures injected so far
  rmdirFailed,      \* a directory removal failed during this run's cleanup
  stopped,          \* number of runs that were interrupted
  orig              \* the files of the source tree before the first run

fsVars   == <<destination_dir, dirs, files, stats, run, stack, root, todo,
              cur, dst, log, cstack, failures, rmdirFailed, stopped, orig>>
vars     == <<name, sanitized, audio, resolved, destination_dir, dirs, files,
              stats, pc, run, stack, root, todo, cur, dst, log, cstack,
              failures, rmdirFailed, stopped, orig>>

(***************************************************************************)
(* Bounds of the model.                                                    *)
(***************************************************************************)
MaxLen == 3        \* length of the short strings given to sanitize_filename
MaxTail == 2       \* length of what follows the padding of a long string
MaxValues == 2     \* values of one multi-valued tag
MaxFiles == 2      \* files in the source tree before the first run
MaxFailures == 1   \* file-system failures in one behaviour
MaxRuns == 2       \* runs of the tool in one behaviour

(***************************************************************************)
(* Strings.                                                                *)
(***************************************************************************)
Min(S) == CHOOSE x \in S : \A y \in S : x <= y
Max(S) == CHOOSE x \in S : \A y \in S : x >= y

SeqsUpTo(S, n) == UNION {[1..k -> S] : k \in 0..n}

Rep(c, n) == [i \in 1..n |-> c]

\* str.strip() / str.rstrip() without argument strip Python's whitespace
Whitespace == {" ", "\t", "\n"}

\* the character class of invalid_chars_pattern
InvalidChars == {"<", ">", ":", "\"", "/", "\\", "|", "?", "*"}

\* the argument of sanitized.strip(' .')
StripChars == {" ", "."}

TruncLen == 200

Unknown == <<"U", "n", "k", "n", "o", "w", "n">>
UnknownArtist == Unknown \o <<" ", "A", "r", "t", "i", "s", "t">>
UnknownAlbum == Unknown \o <<" ", "A", "l", "b", "u", "m">>

FirstKept(s, cs) ==
  LET I == {i \in 1..Len(s) : s[i] \notin cs}
  IN  IF I = {} THEN Len(s) + 1 ELSE Min(I)

LastKept(s, cs) ==
  LET I == {i \in 1..Len(s) : s[i] \notin cs}
  IN  IF I = {} THEN 0 ELSE Max(I)

\* s.strip(cs)
Strip(s, cs) == SubSeq(s, FirstKept(s, cs), LastKept(s, cs))

\* s.rstrip(cs)
RStrip(s, cs) == SubSeq(s, 1, LastKept(s, cs))

\* re.sub(invalid_chars_pattern, '_', s)
ReSub(s) == [i \in 1..Len(s) |-> IF s[i] \in InvalidChars THEN "_" ELSE s[i]]

\* s[:n]
Prefix(s, n) == SubSeq(s, 1, IF Len(s) < n THEN Len(s) ELSE n)

sanitize_filename(s) ==
  IF s = <<>> \/ Strip(s, Whitespace) = <<>>
  THEN Unknown
  ELSE LET replaced == ReSub(s)
           stripped == Strip(replaced, StripChars)
           cut == IF Len(stripped) > TruncLen
                  THEN RStrip(Prefix(stripped, TruncLen), Whitespace)
                  ELSE stripped
       IN  IF cut = <<>> THEN Unknown ELSE cut

(***************************************************************************)
(* Metadata.  mutagen.File gives None, raises, or gives a mapping from tag *)
(* names to non-empty lists of strings (a tag without a value is absent    *)
(* from the mapping).                                                      *)
(***************************************************************************)
TagKeys == {"albumartist", "artist", "album"}

NoneAudio == [kind |-> "none", tags |-> <<>>]
RaiseAudio == [kind |-> "raise", tags |-> <<>>]
Tagged(t) == [kind |-> "tags", tags |-> t]

\* 'key' in audio and audio['key'][0], then str(audio['key'][0]); "" otherwise
FirstValue(a, key) ==
  IF key \in DOMAIN a.tags /\ a.tags[key][1] # <<>> THEN a.tags[key][1] ELSE <<>>

\* the priority reversed: artist before albumartist
PickArtistSwapped(a) ==
  IF FirstValue(a, "artist") # <<>>
  THEN FirstValue(a, "artist")
  ELSE FirstValue(a, "albumartist")

\* albumartist before artist
PickArtist(a) ==
  IF FirstValue(a, "albumartist") # <<>>
  THEN FirstValue(a, "albumartist")
  ELSE FirstValue(a, "artist")

OrDefault(s, default) == IF s = <<>> THEN default ELSE s

extract_metadata(a) ==
  IF a.kind # "tags"
  THEN <<UnknownArtist, UnknownAlbum>>
  ELSE <<OrDefault(sanitize_filename(PickArtist(a)), UnknownArtist),
         OrDefault(sanitize_filename(FirstValue(a, "album")), UnknownAlbum)>>

(***************************************************************************)
(* Inputs of the two pure functions.                                       *)
(***************************************************************************)
Alphabet == {"a", " ", ".", "/", "\t"}

ShortNames == SeqsUpTo(Alphabet, MaxLen)

\* strings around the truncation limit: a run of letters, then a short tail
LongNames ==
  {Rep("a", n) \o t : n \in (TruncLen - 1)..TruncLen,
                      t \in SeqsUpTo(Alphabet, MaxTail)}

Names == ShortNames \cup LongNames

\* first values of a tag, and the values that may follow
TagValues == {<<>>, <<"V">>, <<"T", "/">>, <<".">>}
MoreValues == {<<>>, <<"X">>}

TagLists ==
  {<<v>> \o w : v \in TagValues, w \in SeqsUpTo(MoreValues, MaxValues - 1)}

TagMaps == UNION {[K -> TagLists] : K \in SUBSET TagKeys}

Audios == {NoneAudio, RaiseAudio} \cup {Tagged(t) : t \in TagMaps}

NoStats == [processed |-> 0, duplicates |-> 0, spotdl_deleted |-> 0, errors |-> 0]

FsIdle ==
  /\ destination_dir = <<>>
  /\ dirs = {}
  /\ files = <<>>
  /\ stats = NoStats
  /\ run = 0
  /\ stack = <<>>
  /\ root = <<>>
  /\ todo = <<>>
  /\ cur = <<>>
  /\ dst = <<>>
  /\ log = <<>>
  /\ cstack = <<>>
  /\ failures = 0
  /\ rmdirFailed = FALSE
  /\ stopped = 0
  /\ orig = <<>>

(***************************************************************************)
(* SpecSanitize: sanitize_filename applied to one string.                  *)
(***************************************************************************)
InitSanitize ==
  /\ name \in Names
  /\ sanitized = <<>>
  /\ audio = NoneAudio
  /\ resolved = <<>>
  /\ FsIdle
  /\ pc = "call"

Sanitize ==
  /\ pc = "call"
  /\ sanitized' = sanitize_filename(name)
  /\ pc' = "returned"
  /\ UNCHANGED <<name, audio, resolved>>
  /\ UNCHANGED fsVars

SpecSanitize == InitSanitize /\ [][Sanitize]_vars

(***************************************************************************)
(* SpecMetadata: extract_metadata applied to one file's tag container.     *)
(***************************************************************************)
InitMetadata ==
  /\ name = <<>>
  /\ sanitized = <<>>
  /\ audio \in Audios
  /\ resolved = <<>>
  /\ FsIdle
  /\ pc = "call"

ExtractMetadata ==
  /\ pc = "call"
  /\ resolved' = extract_metadata(audio)
  /\ pc' = "returned"
  /\ UNCHANGED <<name, sanitized, audio>>
  /\ UNCHANGED fsVars

SpecMetadata == InitMetadata /\ [][ExtractMetadata]_vars

(***************************************************************************)
(* The file system.                                                        *)
(***************************************************************************)
source_dir == << <<"src">> >>

\* the destination root: beside the source root, or inside it
DestRoots == { << <<"dst">> >>, << <<"src">>, <<"lib">> >> }

SourceDirs ==
  { source_dir,
    source_dir \o << <<"a">> >>,
    source_dir \o << <<"a">>, <<"b">> >> }

music_extensions == {".mp3", ".m4a", ".flac", ".wav", ".ogg", ".wma"}

Parent(p) == SubSeq(p, 1, Len(p) - 1)
BaseName(p) == p[Len(p)]
Prefixes(p) == {SubSeq(p, 1, k) : k \in 1..Len(p)}
IsBelow(p, d) == Len(p) > Len(d) /\ SubSeq(p, 1, Len(d)) = d

Exists(p) == p \in DOMAIN files
FileNamesIn(d) == {BaseName(p) : p \in {q \in DOMAIN files : Parent(q) = d}}
SubdirsOf(d) == {q \in dirs : Len(q) = Len(d) + 1 /\ Parent(q) = d}
\* not any(dir_path.iterdir())
IsEmptyDir(d) == FileNamesIn(d) = {} /\ SubdirsOf(d) = {}
HoldsFile(d) == \E p \in DOMAIN files : IsBelow(p, d)

Put(f, p, v) == [q \in DOMAIN f \cup {p} |-> IF q = p THEN v ELSE f[q]]
Remove(f, p) == [q \in DOMAIN f \ {p} |-> f[q]]

\* the orders in which a directory listing can give the entries S
Orderings(S) ==
  {s \in [1..Cardinality(S) -> S] : \A i, j \in DOMAIN s : i # j => s[i] # s[j]}

\* str.lower() on the extensions of the model
Lower(e) == IF e = ".MP3" THEN ".mp3" ELSE e

\* Path.suffix
Suffix(n) == IF Len(n) > 1 THEN n[Len(n)] ELSE ""

\* filename.endswith('.spotdl')
EndsWithSpotdl(n) == n[Len(n)] = ".spotdl"

is_music_file(n) == Lower(Suffix(n)) \in music_extensions

\* the loop body without its .spotdl branch
DispatchNoSidecar(n) ==
  IF is_music_file(n) \/ EndsWithSpotdl(n) THEN "music" ELSE "skip"

\* the if / elif of the loop body of organize
Dispatch(n) ==
  IF EndsWithSpotdl(n) THEN "sidecar"
  ELSE IF is_music_file(n) THEN "music"
  ELSE "skip"

\* what mutagen.File can give for the file at p: a file whose copy was cut
\* short may still be readable or not
ReadAudio(p) ==
  IF ~Exists(p) THEN {RaiseAudio}
  ELSE IF files[p].complete THEN {files[p].audio}
  ELSE {files[p].audio, RaiseAudio}

\* destination_file for a file named n whose container reads as a
DestinationFile(a, n) ==
  destination_dir \o <<extract_metadata(a)[1], extract_metadata(a)[2], n>>

\* an error counted as an organized file too
RecordErrorAsProcessed(s) ==
  [s EXCEPT !.errors = @ + 1, !.processed = @ + 1]

\* self.stats['errors'] += 1
RecordError(s) == [s EXCEPT !.errors = @ + 1]

Line(p, o) == [path |-> p, outcome |-> o]

file_path == root \o <<Head(todo)>>

\* back to the for loop over files
NextFile ==
  /\ pc' = "walk"
  /\ todo' = Tail(todo)
  /\ cur' = <<>>
  /\ dst' = <<>>

Fail ==
  /\ failures < MaxFailures
  /\ failures' = failures + 1

cleanupVars == <<cstack, rmdirFailed>>
walkVars == <<stack, root, todo, cur, dst>>
constVars == <<name, sanitized, audio, resolved, destination_dir, orig>>

(***************************************************************************)
(* Init: a source tree with at most MaxFiles files, no destination yet.    *)
(***************************************************************************)
Deep == source_dir \o << <<"a">>, <<"b">> >>

\* the files a source tree of the model is made of
PoolPaths ==
  { source_dir \o << <<"song", ".mp3">> >>,
    source_dir \o << <<"song", ".spotdl">> >>,
    source_dir \o << <<"tune", ".MP3">> >>,
    Deep \o << <<"song", ".mp3">> >>,
    Deep \o << <<"note", ".txt">> >> }

PoolAudios ==
  { NoneAudio,
    Tagged([k \in TagKeys |->
              IF k = "album" THEN << <<"L">> >> ELSE << <<"V">> >>]) }

Init ==
  /\ name = <<>>
  /\ sanitized = <<>>
  /\ audio = NoneAudio
  /\ resolved = <<>>
  /\ destination_dir \in DestRoots
  /\ dirs = SourceDirs
  /\ \E P \in SUBSET PoolPaths :
       /\ Cardinality(P) <= MaxFiles
       /\ \E a \in [P -> PoolAudios] :
            /\ \A p \in P : ~is_music_file(BaseName(p)) => a[p] = NoneAudio
            /\ files = [p \in P |->
                          [audio |-> a[p], complete |-> TRUE, data |-> p]]
  /\ orig = files
  /\ stats = NoStats
  /\ pc = "start"
  /\ run = 1
  /\ stack = <<>>
  /\ root = <<>>
  /\ todo = <<>>
  /\ cur = <<>>
  /\ dst = <<>>
  /\ log = <<>>
  /\ cstack = <<>>
  /\ failures = 0
  /\ rmdirFailed = FALSE
  /\ stopped = 0

(***************************************************************************)
(* organize: validation, creation of the destination root, the walk.       *)
(***************************************************************************)
Organize ==
  /\ pc = "start"
  /\ IF source_dir \notin dirs
     THEN /\ pc' = "done"
          /\ UNCHANGED <<dirs, stack>>
     ELSE /\ dirs' = dirs \cup Prefixes(destination_dir)
          /\ stack' = <<source_dir>>
          /\ pc' = "walk"
  /\ UNCHANGED <<files, stats, run, root, todo, cur, dst, log, failures, stopped>>
  /\ UNCHANGED cleanupVars
  /\ UNCHANGED constVars

\* destination_dir.mkdir raises: the exception leaves organize
OrganizeMkdirFail ==
  /\ pc = "start"
  /\ source_dir \in dirs
  /\ Fail
  /\ pc' = "aborted"
  /\ UNCHANGED <<dirs, files, stats, run, log, stopped>>
  /\ UNCHANGED walkVars
  /\ UNCHANGED cleanupVars
  /\ UNCHANGED constVars

\* os.walk lists the next directory: its files are yielded, its
\* subdirectories are visited after them
WalkNext ==
  /\ pc = "walk"
  /\ todo = <<>>
  /\ stack # <<>>
  /\ IF Head(stack) \notin dirs
     THEN /\ stack' = Tail(stack)
          /\ UNCHANGED <<root, todo>>
     ELSE \E fo \in Orderings(FileNamesIn(Head(stack))),
             do \in Orderings(SubdirsOf(Head(stack))) :
            /\ root' = Head(stack)
            /\ todo' = fo
            /\ stack' = do \o Tail(stack)
  /\ UNCHANGED <<dirs, files, stats, pc, run, cur, dst, log, failures, stopped>>
  /\ UNCHANGED cleanupVars
  /\ UNCHANGED constVars

SkipFile ==
  /\ pc = "walk"
  /\ todo # <<>>
  /\ Dispatch(Head(todo)) = "skip"
  /\ todo' = Tail(todo)
  /\ UNCHANGED <<dirs, files, stats, pc, run, stack, root, cur, dst, log,
                 failures, stopped>>
  /\ UNCHANGED cleanupVars
  /\ UNCHANGED constVars

(***************************************************************************)
(* handle_spotdl_file                                                      *)
(***************************************************************************)
HandleSpotdl ==
  /\ pc = "walk"
  /\ todo # <<>>
  /\ Dispatch(Head(todo)) = "sidecar"
  /\ Exists(file_path)
  /\ files' = Remove(files, file_path)
  /\ stats' = [stats EXCEPT !.spotdl_deleted = @ + 1]
  /\ log' = Append(log, Line(file_path, "spotdl"))
  /\ todo' = Tail(todo)
  /\ UNCHANGED <<dirs, pc, run, stack, root, cur, dst, failures, stopped>>
  /\ UNCHANGED cleanupVars
  /\ UNCHANGED constVars

HandleSpotdlFail ==
  /\ pc = "walk"
  /\ todo # <<>>
  /\ Dispatch(Head(todo)) = "sidecar"
  /\ Fail
  /\ stats' = RecordError(stats)
  /\ log' = Append(log, Line(file_path, "error"))
  /\ todo' = Tail(todo)
  /\ UNCHANGED <<dirs, files, pc, run, stack, root, cur, dst, stopped>>
  /\ UNCHANGED cleanupVars
  /\ UNCHANGED constVars

(***************************************************************************)
(* organize_file, one action per file-system call.                         *)
(***************************************************************************)
\* extract_metadata, the destination path, destination_file.exists()
OfCheck ==
  /\ pc = "walk"
  /\ todo # <<>>
  /\ Dispatch(Head(todo)) = "music"
  /\ \E a \in ReadAudio(file_path) :
       /\ dst' = DestinationFile(a, Head(todo))
       /\ pc' = IF Exists(DestinationFile(a, Head(todo)))
                THEN "of_dup" ELSE "of_mkdir"
  /\ cur' = file_path
  /\ UNCHANGED <<dirs, files, stats, run, stack, root, todo, log, failures,
                 stopped>>
  /\ UNCHANGED cleanupVars
  /\ UNCHANGED constVars

\* the except branch of organize_file
Caught ==
  /\ Fail
  /\ stats' = RecordError(stats)
  /\ NextFile
  /\ UNCHANGED <<run, stack, root, stopped>>
  /\ UNCHANGED cleanupVars
  /\ UNCHANGED constVars

OfCheckFail ==
  /\ pc = "walk"
  /\ todo # <<>>
  /\ Dispatch(Head(todo)) = "music"
  /\ log' = Append(log, Line(file_path, "error"))
  /\ Caught
  /\ UNCHANGED <<dirs, files>>

OfDup ==
  /\ pc = "of_dup"
  /\ Exists(cur)
  /\ files' = Remove(files, cur)
  /\ stats' = [stats EXCEPT !.duplicates = @ + 1]
  /\ log' = Append(log, Line(cur, "duplicate"))
  /\ NextFile
  /\ UNCHANGED <<dirs, run, stack, root, failures, stopped>>
  /\ UNCHANGED cleanupVars
  /\ UNCHANGED constVars

OfDupFail ==
  /\ pc = "of_dup"
  /\ log' = Append(log, Line(cur, "error"))
  /\ Caught
  /\ UNCHANGED <<dirs, files>>

OfMkdir ==
  /\ pc = "of_mkdir"
  /\ dirs' = dirs \cup Prefixes(Parent(dst))
  /\ pc' = "of_copy"
  /\ UNCHANGED <<files, stats, run, stack, root, todo, cur, dst, log, failures,
                 stopped>>
  /\ UNCHANGED cleanupVars
  /\ UNCHANGED constVars

\* mkdir(parents=True) fails after it created some of the missing parents
OfMkdirFail ==
  /\ pc = "of_mkdir"
  /\ \E k \in Len(destination_dir)..(Len(dst) - 2) :
       dirs' = dirs \cup Prefixes(SubSeq(dst, 1, k))
  /\ log' = Append(log, Line(cur, "error"))
  /\ Caught
  /\ UNCHANGED files

\* shutil.copy2 opens the destination for writing
OfCopyOpen ==
  /\ pc = "of_copy"
  /\ Exists(cur)
  /\ files' = Put(files, dst, [files[cur] EXCEPT !.complete = FALSE])
  /\ pc' = "of_copying"
  /\ UNCHANGED <<dirs, stats, run, stack, root, todo, cur, dst, log, failures,
                 stopped>>
  /\ UNCHANGED cleanupVars
  /\ UNCHANGED constVars

OfCopyOpenFail ==
  /\ pc = "of_copy"
  /\ log' = Append(log, Line(cur, "error"))
  /\ Caught
  /\ UNCHANGED <<dirs, files>>

\* shutil.copy2 has written the content and copied the file's metadata
OfCopyFinish ==
  /\ pc = "of_copying"
  /\ files' = [files EXCEPT ![dst].complete = TRUE]
  /\ pc' = "of_unlink"
  /\ UNCHANGED <<dirs, stats, run, stack, root, todo, cur, dst, log, failures,
                 stopped>>
  /\ UNCHANGED cleanupVars
  /\ UNCHANGED constVars

\* shutil.copy2 fails while writing: what was written stays
OfCopyFail ==
  /\ pc = "of_copying"
  /\ log' = Append(log, Line(cur, "error"))
  /\ Caught
  /\ UNCHANGED <<dirs, files>>

OfUnlink ==
  /\ pc = "of_unlink"
  /\ Exists(cur)
  /\ files' = Remove(files, cur)
  /\ stats' = [stats EXCEPT !.processed = @ + 1]
  /\ log' = Append(log, Line(cur, "organized"))
  /\ NextFile
  /\ UNCHANGED <<dirs, run, stack, root, failures, stopped>>
  /\ UNCHANGED cleanupVars
  /\ UNCHANGED constVars

OfUnlinkFail ==
  /\ pc = "of_unlink"
  /\ log' = Append(log, Line(cur, "error"))
  /\ Caught
  /\ UNCHANGED <<dirs, files>>

(***************************************************************************)
(* cleanup_empty_directories: os.walk(source_dir, topdown=False).  An      *)
(* entry of cstack is a directory still to list, or the triple of a listed *)
(* directory, yielded once its subdirectories have been walked; of a       *)
(* triple the model keeps root and the dirs the loop has not visited yet.  *)
(***************************************************************************)
ScanEntry(d) == [scan |-> TRUE, path |-> d, dirs |-> <<>>]
YieldEntry(d, names) == [scan |-> FALSE, path |-> d, dirs |-> names]

\* a triple without dirs: the loop body never runs
Yielded(entry) == IF entry.dirs = <<>> THEN <<>> ELSE <<entry>>

\* topdown=True: the triple of a directory comes before those of its children
WalkTopDown(entry, children, rest) == Yielded(entry) \o children \o rest

\* topdown=False: the triple of a directory comes after those of its children
WalkBottomUp(entry, children, rest) == children \o Yielded(entry) \o rest

BeginCleanup ==
  /\ pc = "walk"
  /\ todo = <<>>
  /\ stack = <<>>
  /\ pc' = "cleanup"
  /\ cstack' = <<ScanEntry(source_dir)>>
  /\ rmdirFailed' = FALSE
  /\ root' = <<>>
  /\ UNCHANGED <<dirs, files, stats, run, log, failures, stopped, stack, todo,
                 cur, dst>>
  /\ UNCHANGED constVars

CleanupScan ==
  /\ pc = "cleanup"
  /\ cstack # <<>>
  /\ Head(cstack).scan
  /\ IF Head(cstack).path \notin dirs
     THEN cstack' = Tail(cstack)
     ELSE \E do \in Orderings(SubdirsOf(Head(cstack).path)) :
            cstack' = WalkBottomUp(
                        YieldEntry(Head(cstack).path,
                                   [i \in DOMAIN do |-> BaseName(do[i])]),
                        [i \in DOMAIN do |-> ScanEntry(do[i])],
                        Tail(cstack))
  /\ UNCHANGED <<dirs, files, stats, pc, run, log, failures, stopped,
                 rmdirFailed>>
  /\ UNCHANGED walkVars
  /\ UNCHANGED constVars

dir_path == Head(cstack).path \o <<Head(Head(cstack).dirs)>>

\* the loop over dirs goes on to the next dir_name
NextDir ==
  cstack' = Yielded([Head(cstack) EXCEPT !.dirs = Tail(@)]) \o Tail(cstack)

\* the body of the loop over dirs: an empty directory is removed
CleanupDir ==
  /\ pc = "cleanup"
  /\ cstack # <<>>
  /\ ~Head(cstack).scan
  /\ dirs' = IF dir_path \in dirs /\ IsEmptyDir(dir_path)
             THEN dirs \ {dir_path}
             ELSE dirs
  /\ NextDir
  /\ UNCHANGED <<files, stats, pc, run, log, failures, stopped, rmdirFailed>>
  /\ UNCHANGED walkVars
  /\ UNCHANGED constVars

\* iterdir or rmdir raises: the warning is printed, the directory stays
CleanupDirFail ==
  /\ pc = "cleanup"
  /\ cstack # <<>>
  /\ ~Head(cstack).scan
  /\ dir_path \in dirs
  /\ Fail
  /\ rmdirFailed' = TRUE
  /\ NextDir
  /\ UNCHANGED <<dirs, files, stats, pc, run, log, stopped>>
  /\ UNCHANGED walkVars
  /\ UNCHANGED constVars

\* the walk is over: print_summary, organize returns
CleanupDone ==
  /\ pc = "cleanup"
  /\ cstack = <<>>
  /\ pc' = "done"
  /\ UNCHANGED <<dirs, files, stats, run, log, failures, stopped, cstack,
                 rmdirFailed>>
  /\ UNCHANGED walkVars
  /\ UNCHANGED constVars

(***************************************************************************)
(* The process is interrupted (KeyboardInterrupt is not an Exception: no   *)
(* except branch of the class catches it), and the tool is run again.      *)
(***************************************************************************)
Running ==
  {"walk", "of_dup", "of_mkdir", "of_copy", "of_copying", "of_unlink", "cleanup"}

Relocating == {"of_dup", "of_mkdir", "of_copy", "of_copying", "of_unlink"}

Interrupt ==
  /\ pc \in Running
  /\ pc' = "interrupted"
  /\ stopped' = stopped + 1
  /\ stack' = <<>>
  /\ root' = <<>>
  /\ todo' = <<>>
  /\ cur' = <<>>
  /\ dst' = <<>>
  /\ cstack' = <<>>
  /\ UNCHANGED <<dirs, files, stats, run, log, failures, rmdirFailed>>
  /\ UNCHANGED constVars

\* a new process: a new MusicOrganizer on the same directories
Rerun ==
  /\ pc \in {"done", "interrupted", "aborted"}
  /\ run < MaxRuns
  /\ run' = run + 1
  /\ pc' = "start"
  /\ stats' = NoStats
  /\ log' = <<>>
  /\ stack' = <<>>
  /\ root' = <<>>
  /\ todo' = <<>>
  /\ cur' = <<>>
  /\ dst' = <<>>
  /\ cstack' = <<>>
  /\ rmdirFailed' = FALSE
  /\ UNCHANGED <<dirs, files, failures, stopped>>
  /\ UNCHANGED constVars

Next ==
  \/ Organize
  \/ OrganizeMkdirFail
  \/ WalkNext
  \/ SkipFile
  \/ HandleSpotdl
  \/ HandleSpotdlFail
  \/ OfCheck
  \/ OfCheckFail
  \/ OfDup
  \/ OfDupFail
  \/ OfMkdir
  \/ OfMkdirFail
  \/ OfCopyOpen
  \/ OfCopyOpenFail
  \/ OfCopyFinish
  \/ OfCopyFail
  \/ OfUnlink
  \/ OfUnlinkFail
  \/ BeginCleanup
  \/ CleanupScan
  \/ CleanupDir
  \/ CleanupDirFail
  \/ CleanupDone
  \/ Interrupt

\* one run of the tool
Spec == Init /\ [][Next]_vars

NextRerun ==
  \/ Next
  \/ Rerun

\* the tool run again on what an earlier run left
SpecRerun == Init /\ [][NextRerun]_vars

(***************************************************************************)
(* Properties.                                                             *)
(***************************************************************************)
IsMusic(p) == is_music_file(BaseName(p))
IsSidecar(p) == EndsWithSpotdl(BaseName(p))

\* DestinationPath of a file of the source tree, from its tags as they were
\* before the first run
DestinationPath(p) == DestinationFile(orig[p].audio, BaseName(p))

Lines(o) == {i \in DOMAIN log : log[i].outcome = o}
LinesOf(p) == {i \in DOMAIN log : log[i].path = p}

\* C4: sanitize_filename(s) is non-empty, has none of the reserved
\* characters, and neither starts nor ends with whitespace or '.'
C4_SanitizedIsSafe ==
  pc = "returned" =>
    /\ sanitized # <<>>
    /\ \A i \in DOMAIN sanitized : sanitized[i] \notin InvalidChars
    /\ sanitized[1] \notin Whitespace \cup {"."}
    /\ sanitized[Len(sanitized)] \notin Whitespace \cup {"."}

\* the selected value becomes empty once replaced and stripped
EmptyEquivalent(v) == Strip(ReSub(v), StripChars \cup Whitespace) = <<>>

\* C5: extract_metadata gives "Unknown Artist" whenever no non-empty
\* albumartist or artist value is available and "Unknown Album" whenever no
\* non-empty album value is available, in every fallback case
C5_UnknownLiterals ==
  pc = "returned" =>
    /\ (audio.kind # "tags" \/ EmptyEquivalent(PickArtist(audio))
          => resolved[1] = UnknownArtist)
    /\ (audio.kind # "tags" \/ EmptyEquivalent(FirstValue(audio, "album"))
          => resolved[2] = UnknownAlbum)

FirstOnly(a) == Tagged([k \in DOMAIN a.tags |-> <<a.tags[k][1]>>])
Only(a, K) == Tagged([k \in DOMAIN a.tags \cap K |-> a.tags[k]])
Has(a, k) == k \in DOMAIN a.tags /\ a.tags[k][1] # <<>>

\* C6: the artist is the sanitized first value of albumartist when that is
\* present and non-empty, else the sanitized first value of artist when that
\* is present and non-empty; later values of a tag never matter; the album
\* does not depend on the artist tags
C6_ArtistPriority ==
  pc = "returned" /\ audio.kind = "tags" =>
    /\ Has(audio, "albumartist")
         => resolved[1] = sanitize_filename(audio.tags["albumartist"][1])
    /\ ~Has(audio, "albumartist") /\ Has(audio, "artist")
         => resolved[1] = sanitize_filename(audio.tags["artist"][1])
    /\ resolved = extract_metadata(FirstOnly(audio))
    /\ resolved[2] = extract_metadata(Only(audio, {"album"}))[2]

C6_Witness ==
  /\ pc = "returned"
  /\ audio.kind = "tags"
  /\ DOMAIN audio.tags = TagKeys
  /\ audio.tags["albumartist"] = << <<"V">>, <<"X">> >>
  /\ audio.tags["artist"] = << <<"T", "/">>, <<"X">> >>
  /\ resolved[1] = <<"V">>

SameTarget(p, q) ==
  /\ BaseName(p) = BaseName(q)
  /\ extract_metadata(orig[p].audio) = extract_metadata(orig[q].audio)

\* C1: in one run without file-system failure, of two audio files of the
\* source tree with the same base name and the same (artist, album) key the
\* first visited is organized and the second removed as a duplicate, neither
\* remains in the source tree, and one file exists at DestinationPath
C1_DuplicatePair ==
  pc = "done" /\ run = 1 /\ failures = 0 =>
    \A p, q \in DOMAIN orig :
      p # q /\ IsMusic(p) /\ IsMusic(q) /\ SameTarget(p, q) =>
        /\ \E i, j \in DOMAIN log :
             /\ i < j
             /\ {log[i].path, log[j].path} = {p, q}
             /\ log[i].outcome = "organized"
             /\ log[j].outcome = "duplicate"
        /\ ~Exists(p)
        /\ ~Exists(q)
        /\ Exists(DestinationPath(p))
        /\ stats.processed >= 1
        /\ stats.duplicates >= 1

\* C2: after an interruption, every file that exists under the destination
\* root holds the complete content of the file copied there
C2_NoPartialDestination ==
  pc = "interrupted" =>
    \A p \in DOMAIN files : IsBelow(p, destination_dir) => files[p].complete

\* C3: a second run to completion, after a first run stopped anywhere and
\* with no file-system failure, ends as one uninterrupted run does: no audio
\* file of the source tree is left where it was, each DestinationPath holds
\* one complete copy of a file that belongs there; and after a completed
\* first run the second run organizes nothing and removes no duplicate
C3_RerunIdempotent ==
  pc = "done" /\ run = 2 /\ failures = 0 =>
    /\ \A p \in DOMAIN orig : IsMusic(p) =>
         /\ ~Exists(p)
         /\ Exists(DestinationPath(p))
         /\ files[DestinationPath(p)].complete
         /\ \E q \in DOMAIN orig :
              /\ DestinationPath(q) = DestinationPath(p)
              /\ files[DestinationPath(p)].data = q
    /\ stopped = 0 => stats.processed = 0 /\ stats.duplicates = 0

\* a step in which organize_file reports an error for a file
OrganizeFileFails ==
  /\ Len(log') = Len(log) + 1
  /\ log'[Len(log')].outcome = "error"
  /\ IsMusic(log'[Len(log')].path)

\* C7: a file-system failure at any step of relocating one file adds one to
\* 'errors' and nothing to the other counters, leaves organize_file without
\* an exception, and the walk goes on with the remaining files
C7_FailureRecovered ==
  /\ [][OrganizeFileFails =>
          /\ stats' = [stats EXCEPT !.errors = @ + 1]
          /\ pc' = "walk"
          /\ todo' = Tail(todo)
          /\ stack' = stack
          /\ root' = root]_vars
  /\ [](run = 1 /\ pc \in {"cleanup", "done"} =>
          \A p \in DOMAIN orig : Dispatch(BaseName(p)) # "skip" => LinesOf(p) # {})

C7_Witness ==
  /\ pc = "done"
  /\ stats = [processed |-> 1, duplicates |-> 0, spotdl_deleted |-> 0,
              errors |-> 1]
  /\ \E i, j \in DOMAIN log :
       /\ i < j
       /\ log[i].outcome = "error"
       /\ IsMusic(log[i].path)
       /\ log[j].outcome = "organized"

\* every path of the file system has its parent directory
NoOrphan ==
  \A q \in dirs \cup DOMAIN files : Len(q) > 1 => Parent(q) \in dirs

SidecarHandled ==
  /\ Len(log') = Len(log) + 1
  /\ IsSidecar(log'[Len(log')].path)

\* C9: a .spotdl file only goes through handle_spotdl_file: one attempt to
\* delete it, counted in 'spotdl_deleted' alone when it succeeds and in
\* 'errors' alone when it fails; it never reaches organize_file, never adds
\* to 'processed' or 'duplicates', never creates anything under the
\* destination root; the counters agree with the lines printed per file
C9_SidecarOnly ==
  /\ [][SidecarHandled =>
          LET line == log'[Len(log')]
          IN  /\ pc = "walk" /\ pc' = "walk"
              /\ line.path = file_path
              /\ \/ /\ line.outcome = "spotdl"
                    /\ stats' = [stats EXCEPT !.spotdl_deleted = @ + 1]
                    /\ files' = Remove(files, line.path)
                 \/ /\ line.outcome = "error"
                    /\ stats' = [stats EXCEPT !.errors = @ + 1]
                    /\ files' = files
              /\ dirs' = dirs]_vars
  /\ [](/\ pc \in Relocating => ~IsSidecar(cur)
        /\ \A p \in DOMAIN files : IsBelow(p, destination_dir) => ~IsSidecar(p)
        /\ \A p \in DOMAIN orig : IsSidecar(p) => Cardinality(LinesOf(p)) <= 1
        /\ stats.processed = Cardinality(Lines("organized"))
        /\ stats.duplicates = Cardinality(Lines("duplicate"))
        /\ stats.spotdl_deleted = Cardinality(Lines("spotdl"))
        /\ stats.errors = Cardinality(Lines("error")))

C9_Witness ==
  /\ pc = "done"
  /\ stats = [processed |-> 1, duplicates |-> 0, spotdl_deleted |-> 1,
              errors |-> 0]
  /\ \E i, j \in DOMAIN log :
       /\ log[i].path = source_dir \o << <<"song", ".spotdl">> >>
       /\ log[i].outcome = "spotdl"
       /\ log[j].path = source_dir \o << <<"song", ".mp3">> >>
       /\ log[j].outcome = "organized"

\* C10: in an uninterrupted run every audio file of the source tree is still
\* where it was or a file exists at its DestinationPath, for every choice of
\* the roots
C10_NoFileLost ==
  run = 1 /\ stopped = 0 =>
    \A p \in DOMAIN orig : IsMusic(p) => Exists(p) \/ Exists(DestinationPath(p))

=============================================================================
